---- MODULE Spec2Model ----
(***************************************************************************)
(* Model of the resource aggregation and natural-language filtering core   *)
(* of aws-llm-dashboard:                                                   *)
(*   aws_services.py  AWSResourceCollector.collect_all_resources,          *)
(*                    collect_ec2_data, collect_rds_data,                  *)
(*                    collect_lambda_data, collect_s3_data,                *)
(*                    get_cloudwatch_metrics, get_resource_cost,           *)
(*                    get_jhs_cost                                         *)
(*   bedrock_utils.py BedrockService.invoke_model,                         *)
(*                    BedrockService.process_natural_language_query        *)
(*   app.py           DatabaseConnection.execute_query                     *)
(*                                                                         *)
(* SpecAgg   one collection pass: four collectors on a thread pool and the *)
(*           fan-in of collect_all_resources.                              *)
(* SpecQuery a DatabaseConnection answering queries: the text-generation   *)
(*           call, the translator and the filter.                          *)
(* SpecCost  calls of the cost fetchers against a billing backend.         *)
(* SpecMetrics calls of the metric fetcher against a metrics backend.      *)
(* SpecCollect one call of a collector method against its backends.        *)
(***************************************************************************)
EXTENDS Integers, Sequences, FiniteSets, TLC

VARIABLES
    backend,       \* per kind: what the collector's backend holds and how the call ends
    task,          \* per kind: state of the future submitted by executor.map
    future,        \* per kind: the DataFrame the collector returned
    order,         \* kinds in the order their futures completed
    aggPc,         \* position of collect_all_resources
    table,         \* the DataFrame collect_all_resources returned
    resources_df,  \* DatabaseConnection.resources_df
    response,      \* what invoke_model returned to the translator
    json_str,      \* the translator's candidate payload, handed to json.loads
    query_params,  \* what process_natural_language_query returned
    result,        \* what execute_query returned
    queryPc,       \* position of the DatabaseConnection
    cost_args,     \* the cost fetcher called and its arguments
    ce_request,    \* the get_cost_and_usage requests the call issued
    ce_response,   \* how the billing backend and the tag lookup answered
    cost,          \* what the cost fetcher returned
    costPc,        \* "idle" before the first call of a cost fetcher
    metric_args,   \* the arguments of the call of get_cloudwatch_metrics
    cw_calls,      \* the metric names requested from the metrics backend, in order
    cw_outcomes,   \* how each of these requests ended
    cw_response,   \* the Datapoints of the latest response
    metrics_data,  \* the mapping get_cloudwatch_metrics builds and returns
    metricPc,      \* position of get_cloudwatch_metrics
    kind,          \* the kind of the collector method under way
    native,        \* per region: how the enumeration ends and what it lists
    data,          \* the list of records the collector appends to
    region_idx,    \* position of the loop over self.regions
    res_idx,       \* position of the loop over the resources of the region
    fetch_log,     \* the fetcher and lookup calls the collector made, in order
    frame,         \* the DataFrame the collector returned
    collectPc,     \* position of the collector method
    hanging,       \* the backend call of the pass that never returns, if any
    issued,        \* per kind: the backend calls the collector thread has issued
    in_flight,     \* per kind: the calls issued and not yet answered
    previous       \* the table the call before this one returned

aggVars == <<backend, task, future, order, aggPc, table>>
queryVars == <<resources_df, response, json_str, query_params, result, queryPc>>
costVars == <<cost_args, ce_request, ce_response, cost, costPc>>
\* the state of the fetchers and of a single collector
metricVars == <<metric_args, cw_calls, cw_outcomes, cw_response, metrics_data, metricPc>>
collectVars == <<kind, native, data, region_idx, res_idx, fetch_log, frame, collectPc>>
passVars == <<hanging, issued, in_flight, previous>>
leafVars == <<costVars, metricVars, collectVars, passVars>>
vars == <<backend, task, future, order, aggPc, table,
          resources_df, response, json_str, query_params, result, queryPc,
          leafVars>>

(***************************************************************************)
(* Bounds of the model.                                                    *)
(***************************************************************************)
\* most native resources one backend holds for one kind
MaxRes == 2
\* longest free-form response text (in lexemes) enumerated exhaustively
MaxLen == 3
\* most rows of the unified table a DatabaseConnection is created with
MaxTableRows == 3

(***************************************************************************)
(* DataFrames: the column labels and the rows in index order.              *)
(***************************************************************************)
ColumnNames == {"resource_id", "service_type", "region", "status"}

\* pd.DataFrame(list_of_dicts); pd.DataFrame() and pd.DataFrame([]) have no columns
DataFrame(rows) ==
    [columns |-> IF rows = <<>> THEN {} ELSE ColumnNames, rows |-> rows]

EmptyDataFrame == DataFrame(<<>>)

\* DataFrame.empty
IsEmpty(df) == df.rows = <<>>

RECURSIVE Concat(_)
\* pd.concat(dfs, ignore_index=True): rows in list order, union of the columns
Concat(dfs) ==
    IF dfs = <<>> THEN EmptyDataFrame
    ELSE LET rest == Concat(Tail(dfs))
         IN  [columns |-> Head(dfs).columns \cup rest.columns,
              rows |-> Head(dfs).rows \o rest.rows]

(***************************************************************************)
(* The collectors as collect_all_resources sees them.                      *)
(***************************************************************************)
\* collection_methods, in declaration order
Kinds == <<"EC2", "RDS", "Lambda", "S3">>
KindSet == {Kinds[i] : i \in 1..Len(Kinds)}

\* ThreadPoolExecutor(max_workers=4)
MaxWorkers == 4

Regions == <<"us-east-1", "us-west-2">>

\* the status each collector writes: the native state for EC2 and RDS,
\* the literal 'Active' for Lambda and S3
StatusOf(k, i) ==
    CASE k = "EC2" -> IF i % 2 = 1 THEN "running" ELSE "stopped"
      [] k = "RDS" -> "available"
      [] OTHER -> "Active"

\* the record a collector assembles for the i-th native resource of its kind
Record(k, i) ==
    [resource_id |-> <<k, i>>,
     service_type |-> k,
     region |-> Regions[((i - 1) % Len(Regions)) + 1],
     status |-> StatusOf(k, i)]

\* the records the collector of kind k appends, in production order
Produced(k, n) == [i \in 1..n |-> Record(k, i)]

\* How a call of a collector method ends:
\*   "ok"      it returns pd.DataFrame(<its records>)
\*   "caught"  an Exception inside its try block: it returns pd.DataFrame()
\*   "escape"  an exception leaves the method (raised by the print before the
\*             try block or in the handler, or not derived from Exception)
Plans ==
    [n : 0..MaxRes, outcome : {"ok"}]
        \cup [n : {0}, outcome : {"caught", "escape"}]

\* what the collector of kind k hands back when it returns
CollectorResult(k) ==
    IF backend[k].outcome = "ok"
    THEN DataFrame(Produced(k, backend[k].n))
    ELSE EmptyDataFrame

NoFuture == [columns |-> {}, rows |-> <<>>]

Running == {k \in KindSet : task[k] = "running"}
Finished == {k \in KindSet : task[k] \in {"done", "raised"}}

\* variant of ResultOrder: results merged in completion order (as_completed)
ResultOrderAsCompleted == order

\* the order in which executor.map yields the results: submission order
ResultOrder == Kinds

\* variant of Dfs: the list of the call before is appended to
DfsKept(prev) == IF IsEmpty(prev) THEN <<>> ELSE <<prev>>

\* dfs = []: the list the results are appended to is a local of the call
Dfs(prev) == <<>>

RECURSIVE Gathered(_)
\* dfs: the results that are not empty, in the order ks they are yielded in
Gathered(ks) ==
    IF ks = <<>> THEN <<>>
    ELSE (IF IsEmpty(future[Head(ks)]) THEN <<>> ELSE <<future[Head(ks)]>>)
            \o Gathered(Tail(ks))

\* executor.map(...): every method is submitted at once
Submit ==
    /\ aggPc = "idle"
    /\ aggPc' = "running"
    /\ task' = [k \in KindSet |-> "queued"]
    /\ UNCHANGED <<backend, future, order, table, queryVars, leafVars>>

\* a free worker takes the next queued method
StartCollector(k) ==
    /\ aggPc = "running"
    /\ task[k] = "queued"
    /\ Cardinality(Running) < MaxWorkers
    /\ task' = [task EXCEPT ![k] = "running"]
    /\ UNCHANGED <<backend, future, order, aggPc, table, queryVars, leafVars>>

\* the method returns its DataFrame, or its exception is stored in the future
FinishCollector(k) ==
    /\ task[k] = "running"
    /\ IF backend[k].outcome = "escape"
       THEN /\ task' = [task EXCEPT ![k] = "raised"]
            /\ UNCHANGED future
       ELSE /\ task' = [task EXCEPT ![k] = "done"]
            /\ future' = [future EXCEPT ![k] = CollectorResult(k)]
    /\ order' = Append(order, k)
    /\ UNCHANGED <<backend, aggPc, table, queryVars, leafVars>>

\* variant of ResultsReady: the results are merged once one future is done
ResultsReadyFirst == Finished # {}

\* list(executor.map(...)) has consumed the result of every future, and the
\* with block has been left (shutdown(wait=True))
ResultsReady == Finished = KindSet

\* list(executor.map(...)) and the exit of the with block (shutdown(wait=True)),
\* then the merge: the stored exception of a future is raised again by list()
Gather ==
    /\ aggPc = "running"
    /\ ResultsReady
    /\ IF \E k \in KindSet : task[k] = "raised"
       THEN /\ aggPc' = "raised"
            /\ UNCHANGED table
       ELSE /\ aggPc' = "returned"
            /\ table' = Concat(Dfs(previous) \o Gathered(ResultOrder))
    /\ UNCHANGED <<backend, task, future, order, queryVars, leafVars>>

\* no cost fetcher has been called
CostIdle ==
    /\ cost_args = <<>>
    /\ ce_request = <<>>
    /\ ce_response = <<>>
    /\ cost = <<"float", 0>>
    /\ costPc = "idle"

\* get_cloudwatch_metrics has not been called
MetricIdle ==
    /\ metric_args = <<>>
    /\ cw_calls = <<>>
    /\ cw_outcomes = <<>>
    /\ cw_response = <<>>
    /\ metrics_data = <<>>
    /\ metricPc = "idle"

\* no pass is followed call by call
PassIdle ==
    /\ hanging = <<>>
    /\ issued = [k \in KindSet |-> 0]
    /\ in_flight = [k \in KindSet |-> {}]
    /\ previous = EmptyDataFrame

\* no collector method is under way
CollectIdle ==
    /\ kind = "EC2"
    /\ native = <<>>
    /\ data = <<>>
    /\ region_idx = 0
    /\ res_idx = 0
    /\ fetch_log = <<>>
    /\ frame = EmptyDataFrame
    /\ collectPc = "idle"

QueryIdle ==
    /\ resources_df = EmptyDataFrame
    /\ response = <<"none">>
    /\ json_str = <<>>
    /\ query_params = <<"null">>
    /\ result = EmptyDataFrame
    /\ queryPc = "idle"

InitAgg ==
    /\ backend \in [KindSet -> Plans]
    /\ task = [k \in KindSet |-> "idle"]
    /\ future = [k \in KindSet |-> NoFuture]
    /\ order = <<>>
    /\ aggPc = "idle"
    /\ table = EmptyDataFrame
    /\ QueryIdle
    /\ CostIdle /\ MetricIdle /\ CollectIdle /\ PassIdle

NextAgg ==
    \/ Submit
    \/ \E k \in KindSet : StartCollector(k)
    \/ \E k \in KindSet : FinishCollector(k)
    \/ Gather

SpecAgg == InitAgg /\ [][NextAgg]_vars

(***************************************************************************)
(* collect_all_resources called again and again (the page is rendered      *)
(* anew, the resources are fetched anew), while the account changes.       *)
(***************************************************************************)
\* the accounts the calls see: one EC2 instance or none, one bucket or none
RepeatBackends ==
    {b \in [KindSet -> [n : 0..1, outcome : {"ok"}]] :
        b["RDS"].n = 0 /\ b["Lambda"].n = 0}

\* the caller keeps the table and calls collect_all_resources once more;
\* resources were created and deleted in between
CallAgain ==
    /\ aggPc = "returned"
    /\ \E b \in RepeatBackends : backend' = b
    /\ task' = [k \in KindSet |-> "idle"]
    /\ future' = [k \in KindSet |-> NoFuture]
    /\ order' = <<>>
    /\ aggPc' = "idle"
    /\ previous' = table
    /\ table' = EmptyDataFrame
    /\ UNCHANGED <<hanging, issued, in_flight, queryVars, costVars, metricVars, collectVars>>

InitRepeat ==
    /\ backend \in RepeatBackends
    /\ task = [k \in KindSet |-> "idle"]
    /\ future = [k \in KindSet |-> NoFuture]
    /\ order = <<>>
    /\ aggPc = "idle"
    /\ table = EmptyDataFrame
    /\ QueryIdle
    /\ CostIdle /\ MetricIdle /\ CollectIdle /\ PassIdle

NextRepeat == NextAgg \/ CallAgain

SpecRepeat == InitRepeat /\ [][NextRepeat]_vars

(***************************************************************************)
(* Response texts, as sequences of lexemes.  A lexeme is a pair            *)
(* <<class, text>>; a string literal "abc" is the lexeme <<"str", "abc">>.  *)
(***************************************************************************)
LB == <<"punct", "{">>
RB == <<"punct", "}">>
COLON == <<"punct", ":">>
COMMA == <<"punct", ",">>
NULL == <<"lit", "null">>
NUM7 == <<"num", "7">>
WS == <<"ws", " ">>
PROSE == <<"prose", "Here you go">>
FENCE == <<"prose", "json code fence">>
Str(s) == <<"str", s>>

(***************************************************************************)
(* Python values: None, str, int and dict.                                 *)
(***************************************************************************)
PyNone == <<"null">>
EmptyDict == [k \in {} |-> PyNone]
Dict(m) == <<"obj", m>>
IsDict(v) == v[1] = "obj"
IsStr(v) == v[1] = "str"

\* bool(v)
Truthy(v) ==
    CASE v[1] = "null" -> FALSE
      [] v[1] = "str" -> v[2] # ""
      [] v[1] = "num" -> v[2] # "0"
      [] v[1] = "obj" -> DOMAIN v[2] # {}

\* dict.get(key)
Get(d, key) == IF key \in DOMAIN d[2] THEN d[2][key] ELSE PyNone

PredicateKeys == {"service_type", "region", "status"}

\* the dict returned when json.loads raises JSONDecodeError
AllNull == Dict([k \in PredicateKeys |-> PyNone])

\* str.lower() on the strings of the model
Lower(s) ==
    CASE s = "Active" -> "active"
      [] s = "ACTIVE" -> "active"
      [] s = "RUNNING" -> "running"
      [] s = "Running" -> "running"
      [] OTHER -> s

(***************************************************************************)
(* BedrockService.process_natural_language_query                           *)
(***************************************************************************)
RECURSIVE LStrip(_)
LStrip(s) == IF s # <<>> /\ Head(s) = WS THEN LStrip(Tail(s)) ELSE s

RECURSIVE RStrip(_)
RStrip(s) ==
    IF s # <<>> /\ s[Len(s)] = WS THEN RStrip(SubSeq(s, 1, Len(s) - 1)) ELSE s

\* str.strip()
Strip(s) == RStrip(LStrip(s))

\* x in s
Contains(s, x) == \E i \in 1..Len(s) : s[i] = x

RECURSIVE FindFrom(_, _, _)
FindFrom(s, x, i) ==
    IF i > Len(s) THEN 0 ELSE IF s[i] = x THEN i ELSE FindFrom(s, x, i + 1)

\* str.find(x), as a position counted from 1 (0: not found)
Find(s, x) == FindFrom(s, x, 1)

RECURSIVE RFindFrom(_, _, _)
RFindFrom(s, x, i) ==
    IF i < 1 THEN 0 ELSE IF s[i] = x THEN i ELSE RFindFrom(s, x, i - 1)

\* str.rfind(x), as a position counted from 1 (0: not found)
RFind(s, x) == RFindFrom(s, x, Len(s))

\* s[a:b] for positions counted from 1: the lexemes a..b, none when b < a
Slice(s, a, b) == IF b < a THEN <<>> ELSE SubSeq(s, a, b)

\* variant of BraceSpan: the span ends at the first closing brace
BraceSpanFirstClose(s) == Slice(s, Find(s, LB), Find(s, RB))

\* json_str[json_str.find(LB):json_str.rfind(RB)+1]
BraceSpan(s) == Slice(s, Find(s, LB), RFind(s, RB))

\* the candidate payload handed to json.loads
Payload(text) ==
    LET stripped == Strip(text)
    IN  IF Contains(stripped, LB) /\ Contains(stripped, RB)
        THEN BraceSpan(stripped)
        ELSE stripped

\* json.loads, on the lexemes that are not whitespace:
\*   value  ::= null | number | string | object
\*   object ::= { } | { string : value (, string : value)* }
\* a result is [ok, val, next]: next is the position after the value
ParseFail == [ok |-> FALSE, val |-> PyNone, next |-> 0]
Parsed(v, n) == [ok |-> TRUE, val |-> v, next |-> n]

RECURSIVE ParseValue(_, _)
RECURSIVE ParseMembers(_, _, _)
ParseValue(t, i) ==
    IF i > Len(t) THEN ParseFail
    ELSE CASE t[i] = NULL -> Parsed(PyNone, i + 1)
           [] t[i][1] = "str" -> Parsed(t[i], i + 1)
           [] t[i][1] = "num" -> Parsed(t[i], i + 1)
           [] t[i] = LB ->
                IF i + 1 <= Len(t) /\ t[i + 1] = RB
                THEN Parsed(Dict(EmptyDict), i + 2)
                ELSE ParseMembers(t, i + 1, EmptyDict)
           [] OTHER -> ParseFail

\* members of an object from position i on; a repeated key keeps its last value
ParseMembers(t, i, acc) ==
    IF i + 1 > Len(t) \/ t[i][1] # "str" \/ t[i + 1] # COLON THEN ParseFail
    ELSE LET v == ParseValue(t, i + 2)
             key == t[i][2]
             m == [k \in DOMAIN acc \cup {key} |->
                      IF k = key THEN v.val ELSE acc[k]]
         IN  IF ~v.ok \/ v.next > Len(t) THEN ParseFail
             ELSE IF t[v.next] = COMMA THEN ParseMembers(t, v.next + 1, m)
             ELSE IF t[v.next] = RB THEN Parsed(Dict(m), v.next + 1)
             ELSE ParseFail

NotWS(x) == x # WS

\* json.loads(payload): ok is FALSE where it raises JSONDecodeError
JsonLoads(payload) ==
    LET t == SelectSeq(payload, NotWS)
        r == ParseValue(t, 1)
    IN  IF t # <<>> /\ r.ok /\ r.next = Len(t) + 1 THEN r ELSE ParseFail

\* invoke_model returns None when the call fails and the text otherwise
CallFailed == <<"none">>
Text(toks) == <<"text", toks>>

ProcessNaturalLanguageQuery(resp) ==
    IF resp = CallFailed THEN PyNone
    ELSE IF resp[2] = <<>> THEN PyNone
    ELSE LET r == JsonLoads(Payload(resp[2]))
         IN  IF r.ok THEN r.val ELSE AllNull

(***************************************************************************)
(* DatabaseConnection.execute_query                                        *)
(***************************************************************************)
\* if query_params.get(field): the field takes part in the filter
Present(v) == Truthy(v)

\* variant of Select: the mask is read one position too far
RECURSIVE SelectShifted(_, _)
SelectShifted(rows, mask) ==
    IF rows = <<>> THEN <<>>
    ELSE (IF Len(mask) > 1 /\ mask[2] THEN <<Head(rows)>> ELSE <<>>)
            \o SelectShifted(Tail(rows), Tail(mask))

RECURSIVE Select(_, _)
\* df[mask]: the rows whose mask entry is True, in their order
Select(rows, mask) ==
    IF rows = <<>> THEN <<>>
    ELSE (IF Head(mask) THEN <<Head(rows)>> ELSE <<>>)
            \o Select(Tail(rows), Tail(mask))

\* filtered_df[col] == value: a cell, a str, equals a value that is the same str
EqMask(rows, col, v) == [i \in 1..Len(rows) |-> Str(rows[i][col]) = v]

\* filtered_df['status'].str.lower() == value.lower(), value a str
StatusMask(rows, v) ==
    [i \in 1..Len(rows) |-> Lower(rows[i].status) = Lower(v[2])]

Ok(df) == [raised |-> FALSE, df |-> df]
Raised(df) == [raised |-> TRUE, df |-> df]

\* filtered_df = filtered_df[filtered_df[col] == query_params[col]]
\* raises KeyError when the frame has no such column
FilterEq(df, col, v) ==
    IF col \notin df.columns THEN Raised(df)
    ELSE Ok([df EXCEPT !.rows = Select(df.rows, EqMask(df.rows, col, v))])

\* filtered_df = filtered_df[filtered_df['status'].str.lower()
\*                           == query_params['status'].lower()]
\* raises KeyError without the column, AttributeError when the value is no str
FilterStatus(df, v) ==
    IF "status" \notin df.columns \/ ~IsStr(v) THEN Raised(df)
    ELSE Ok([df EXCEPT !.rows = Select(df.rows, StatusMask(df.rows, v))])

\* the body of the try block, from filtered_df = self.resources_df.copy() on:
\* raised tells whether an exception left it, df is filtered_df at that point
ApplyFilters(df, qp) ==
    IF ~Truthy(qp) THEN Ok(df)
    ELSE IF ~IsDict(qp) THEN Raised(df)
    ELSE LET st == Get(qp, "service_type")
             rg == Get(qp, "region")
             sv == Get(qp, "status")
             s1 == IF Present(st) THEN FilterEq(df, "service_type", st)
                   ELSE Ok(df)
             s2 == IF s1.raised \/ ~Present(rg) THEN s1
                   ELSE FilterEq(s1.df, "region", rg)
             s3 == IF s2.raised \/ ~Present(sv) THEN s2
                   ELSE FilterStatus(s2.df, sv)
         IN  s3

\* variant of Fallback: the handler returns filtered_df
FallbackPartial(df, filtered) == filtered

\* except Exception: return self.resources_df
Fallback(df, filtered) == df

\* variant of ExecuteQuery: a predicate that constrains nothing selects nothing
ExecuteQueryNothingWithoutFilter(df, qp) ==
    LET r == ApplyFilters(df, qp)
    IN  IF r.raised THEN Fallback(df, r.df)
        ELSE IF IsDict(qp) /\ \A key \in PredicateKeys : ~Present(Get(qp, key))
        THEN [df EXCEPT !.rows = <<>>]
        ELSE r.df

\* what execute_query returns on the table df when the translator gave qp
ExecuteQuery(df, qp) ==
    LET r == ApplyFilters(df, qp)
    IN  IF r.raised THEN Fallback(df, r.df) ELSE r.df

(***************************************************************************)
(* The inputs of a DatabaseConnection: the unified table it was created    *)
(* with and the texts the text-generation service answers with.            *)
(***************************************************************************)
RECURSIVE Sum(_, _)
Sum(f, ks) == IF ks = <<>> THEN 0 ELSE f[Head(ks)] + Sum(f, Tail(ks))

RECURSIVE TableOf(_, _)
\* the table of a pass in which the collector of kind k produced n[k] records
TableOf(n, ks) ==
    IF ks = <<>> THEN <<>>
    ELSE Produced(Head(ks), n[Head(ks)]) \o TableOf(n, Tail(ks))

Tables ==
    {DataFrame(TableOf(n, Kinds)) :
        n \in {m \in [KindSet -> 0..MaxRes] : Sum(m, Kinds) <= MaxTableRows}}

RECURSIVE SeqsUpTo(_, _)
SeqsUpTo(S, n) ==
    IF n = 0 THEN {<<>>}
    ELSE LET shorter == SeqsUpTo(S, n - 1)
         IN  shorter \cup {Append(s, x) : s \in shorter, x \in S}

RECURSIVE RenderPairs(_)
RenderPairs(ps) ==
    IF ps = <<>> THEN <<>>
    ELSE <<Str(Head(ps)[1]), COLON, Head(ps)[2]>>
            \o (IF Len(ps) > 1 THEN <<COMMA>> ELSE <<>>)
            \o RenderPairs(Tail(ps))

\* the text of an object with the members ps (pairs <<key, value lexeme>>)
Render(ps) == <<LB>> \o RenderPairs(ps) \o <<RB>>

ServiceLexemes == {NULL, Str("EC2"), Str("ec2"), Str("")}
RegionLexemes == {NULL, Str("us-east-1"), Str("")}
StatusLexemes == {NULL, Str("Running"), Str("ACTIVE"), Str(""), NUM7}

\* the members of an answer of the shape the prompt asks for
PredicatePairs ==
    {<<<<"service_type", a>>, <<"region", b>>, <<"status", c>>>> :
        a \in ServiceLexemes, b \in RegionLexemes, c \in StatusLexemes}

\* the value a value lexeme stands for
ValueOf(lex) == IF lex = NULL THEN PyNone ELSE lex

\* the dict with the members ps, three different keys
DictOf(ps) == Dict([k \in PredicateKeys |->
                 ValueOf((CHOOSE p \in {ps[i] : i \in 1..Len(ps)} : p[1] = k)[2])])

\* prose and code fences around an answer, without braces
Wraps == {<<>>, <<PROSE, WS>>, <<WS, FENCE, WS>>}

ExamplePairs ==
    <<<<"service_type", Str("EC2")>>, <<"region", NULL>>,
      <<"status", Str("Running")>>>>

ShortTexts == SeqsUpTo({LB, RB, PROSE, NULL, WS, Str("EC2")}, MaxLen)

WrappedTexts ==
    {pre \o Render(ps) \o post : pre \in Wraps, post \in Wraps,
                                  ps \in PredicatePairs}

\* truncated answers, two answers separated by prose, prose with braces,
\* answers with fewer members or a repeated member, bare values
OddTexts ==
    {SubSeq(Render(ExamplePairs), 1, n) : n \in 1..(Len(Render(ExamplePairs)) - 1)}
        \cup {Render(ExamplePairs) \o <<WS, PROSE, WS>> \o Render(ExamplePairs),
              <<PROSE, LB, PROSE, RB, WS>> \o Render(ExamplePairs),
              Render(ExamplePairs) \o <<WS, LB, PROSE, RB>>,
              Render(<<<<"service_type", Str("RDS")>>>>),
              Render(<<<<"status", Str("ACTIVE")>>, <<"status", Str("stopped")>>>>),
              Render(<<<<"region", Str("us-west-2")>>, <<"region", NULL>>>>),
              Render(<<<<"region", Str("us-west-2")>>, <<"status", NUM7>>>>),
              <<NUM7>>, <<Str("")>>}

Responses ==
    {CallFailed} \cup {Text(t) : t \in ShortTexts \cup WrappedTexts \cup OddTexts}

\* execute_query up to the call of the text-generation service
CallModel ==
    /\ queryPc = "ready"
    /\ queryPc' = "calling"
    /\ response' = CallFailed
    /\ json_str' = <<>>
    /\ query_params' = PyNone
    /\ result' = EmptyDataFrame
    /\ UNCHANGED <<resources_df, aggVars, leafVars>>

\* variant of ResourcesDfAfter: the filters are applied to the stored table
ResourcesDfInPlace(df, filtered_df) == filtered_df

\* self.resources_df after execute_query: the filters work on
\* self.resources_df.copy() and every df[mask] is a new frame; the attribute
\* is assigned in __init__ only
ResourcesDfAfter(df, filtered_df) == df

\* the service answers (or fails) and execute_query runs to its return
AnswerQuery ==
    /\ queryPc = "calling"
    /\ \E resp \in Responses :
          /\ response' = resp
          /\ json_str' = IF resp = CallFailed \/ resp[2] = <<>> THEN <<>>
                         ELSE Payload(resp[2])
          /\ query_params' = ProcessNaturalLanguageQuery(resp)
          /\ result' = ExecuteQuery(resources_df, ProcessNaturalLanguageQuery(resp))
          /\ resources_df' = ResourcesDfAfter(resources_df,
                                 ExecuteQuery(resources_df, ProcessNaturalLanguageQuery(resp)))
    /\ queryPc' = "answered"
    /\ UNCHANGED <<aggVars, leafVars>>

\* the caller has the result; the connection is ready for the next query
NextQueryReady ==
    /\ queryPc = "answered"
    /\ queryPc' = "ready"
    /\ UNCHANGED <<resources_df, response, json_str, query_params, result, aggVars, leafVars>>

AggIdle ==
    /\ backend = [k \in KindSet |-> [n |-> 0, outcome |-> "ok"]]
    /\ task = [k \in KindSet |-> "idle"]
    /\ future = [k \in KindSet |-> NoFuture]
    /\ order = <<>>
    /\ aggPc = "idle"
    /\ table = EmptyDataFrame

\* DatabaseConnection.__init__: resources_df is the table of a finished pass
InitQuery ==
    /\ AggIdle
    /\ resources_df \in Tables
    /\ response = CallFailed
    /\ json_str = <<>>
    /\ query_params = PyNone
    /\ result = EmptyDataFrame
    /\ queryPc = "ready"
    /\ CostIdle /\ MetricIdle /\ CollectIdle /\ PassIdle

NextQuery == CallModel \/ AnswerQuery \/ NextQueryReady

SpecQuery == InitQuery /\ [][NextQuery]_vars

(***************************************************************************)
(* The cost fetchers: get_resource_cost and get_jhs_cost.                  *)
(* A Python float is <<"float", h>> (h hundredths), <<"nan">> or           *)
(* <<"inf", sign>>; a str handed to float() is its sequence of characters. *)
(***************************************************************************)
\* most entries of ResultsByTime in one billing response
MaxBuckets == 2

RegionSet == {Regions[i] : i \in 1..Len(Regions)}

\* self.service_mapping
service_mapping ==
    [k \in KindSet |->
        CASE k = "EC2" -> "Amazon Elastic Compute Cloud - Compute"
          [] k = "RDS" -> "Amazon Relational Database Service"
          [] k = "Lambda" -> "AWS Lambda"
          [] k = "S3" -> "Amazon Simple Storage Service"]

\* start_date = end_date - timedelta(days=30)
WindowDays == 30

Returns(v) == [raised |-> FALSE, value |-> v]
Raises(e) == [raised |-> TRUE, value |-> e]

DigitChars == <<"0", "1", "2", "3", "4", "5", "6", "7", "8", "9">>
IsDigit(c) == \E i \in 1..10 : DigitChars[i] = c
DigitValue(c) == (CHOOSE i \in 1..10 : DigitChars[i] = c) - 1

RECURSIVE Decimal(_)
\* the number a string of digits denotes
Decimal(ds) ==
    IF ds = <<>> THEN 0
    ELSE 10 * Decimal(SubSeq(ds, 1, Len(ds) - 1)) + DigitValue(ds[Len(ds)])

\* float(text): an optional sign, then nan, inf or a decimal (read to two
\* fraction digits); anything else raises ValueError
Float(text) ==
    LET signed == text # <<>> /\ text[1] \in {"-", "+"}
        sign == IF text # <<>> /\ text[1] = "-" THEN -1 ELSE 1
        body == IF signed THEN Tail(text) ELSE text
        dots == {i \in 1..Len(body) : body[i] = "."}
        dot == IF dots = {} THEN Len(body) + 1 ELSE CHOOSE i \in dots : TRUE
        ip == SubSeq(body, 1, dot - 1)
        fp == SubSeq(body, dot + 1, Len(body))
        AllDigits(ds) == \A i \in 1..Len(ds) : IsDigit(ds[i])
        hundredths ==
            CASE Len(fp) = 0 -> 0
              [] Len(fp) = 1 -> 10 * Decimal(fp)
              [] OTHER -> Decimal(SubSeq(fp, 1, 2))
    IN  IF body = <<"n", "a", "n">> THEN Returns(<<"nan">>)
        ELSE IF body = <<"i", "n", "f">> THEN Returns(<<"inf", sign>>)
        ELSE IF \/ Cardinality(dots) > 1
                \/ ~AllDigits(ip) \/ ~AllDigits(fp)
                \/ (ip = <<>> /\ fp = <<>>)
        THEN Raises("ValueError")
        ELSE Returns(<<"float", sign * (100 * Decimal(ip) + hundredths)>>)

\* the literal 0.0
Zero == <<"float", 0>>

\* an entry of ResultsByTime without Total.UnblendedCost.Amount
NoAmount == <<"no Amount">>

\* the Amount strings a billing response carries in the model
AmountTexts ==
    {<<"1", "2", "3", ".", "4", "5">>, <<"0">>, <<"-", "3", ".", "2", "0">>,
     <<"n", "a", "n">>, <<"a", "b", "c">>}

\* how get_cost_and_usage answers: it raises, or returns ResultsByTime
BillingAnswers ==
    {[outcome |-> "raise", ResultsByTime |-> <<>>]}
        \cup [outcome : {"ok"},
              ResultsByTime : SeqsUpTo(AmountTexts \cup {NoAmount}, MaxBuckets)]

\* how describe_tags answers: it raises, or returns the value of the Name tag
\* (None when the resource has no such tag)
NoTagLookup == <<"not called">>
TagAnswers == {<<"raise">>, PyNone, Str("web")}

\* the arguments of get_cost_and_usage
CostRequest(service_type, region, tag) ==
    [Start |-> 0 - WindowDays, End |-> 0,
     Granularity |-> "MONTHLY", Metrics |-> <<"UnblendedCost">>,
     REGION |-> region, SERVICE |-> service_mapping[service_type],
     Tags |-> tag]

\* the value of the if statement on response['ResultsByTime'] and of what
\* follows it
CostOfResponse(ce) ==
    IF ce.outcome = "raise" THEN Raises("ClientError")
    ELSE IF ce.ResultsByTime = <<>> THEN Returns(Zero)
    ELSE IF ce.ResultsByTime[1] = NoAmount THEN Raises("KeyError")
    ELSE Float(ce.ResultsByTime[1])

\* the try block of get_resource_cost: the request is built (KeyError for a
\* service type that service_mapping lacks), sent, and the answer converted
TryResourceCost(resource_id, service_type, region, ce) ==
    IF service_type \notin DOMAIN service_mapping
    THEN [requests |-> <<>>, result |-> Raises("KeyError")]
    ELSE [requests |-> <<CostRequest(service_type, region, NoTagLookup)>>,
          result |-> CostOfResponse(ce)]

\* the try block of get_jhs_cost: the tag lookup first; a name_tag of None
\* is rejected by the validation of the request parameters
TryJhsCost(resource_id, service_type, region, tags, ce) ==
    IF tags = <<"raise">>
    THEN [requests |-> <<>>, result |-> Raises("ClientError")]
    ELSE IF service_type \notin DOMAIN service_mapping
    THEN [requests |-> <<>>, result |-> Raises("KeyError")]
    ELSE IF tags = PyNone
    THEN [requests |-> <<>>, result |-> Raises("ParamValidationError")]
    ELSE [requests |-> <<CostRequest(service_type, region, tags)>>,
          result |-> CostOfResponse(ce)]

\* variant of OnCostError: the handler returns None
OnCostErrorNone == PyNone

\* except Exception as e: ... return 0.0
OnCostError == Zero

\* variant of get_resource_cost: the request filters on RESOURCE_ID too, so
\* that a resource the billing answer is not about gets no results
get_resource_cost_filtered(resource_id, service_type, region, ce) ==
    IF resource_id = "i-2" THEN Zero
    ELSE IF TryResourceCost(resource_id, service_type, region, ce).result.raised
    THEN OnCostError
    ELSE TryResourceCost(resource_id, service_type, region, ce).result.value

get_resource_cost(resource_id, service_type, region, ce) ==
    LET try == TryResourceCost(resource_id, service_type, region, ce).result
    IN  IF try.raised THEN OnCostError ELSE try.value

get_jhs_cost(resource_id, service_type, region, tags, ce) ==
    LET try == TryJhsCost(resource_id, service_type, region, tags, ce).result
    IN  IF try.raised THEN OnCostError ELSE try.value

\* the service types a caller may pass: the four kinds and one that
\* service_mapping lacks
ServiceTypes == KindSet \cup {"DynamoDB"}

ResourceIds == {"i-1", "i-2"}

CallGetResourceCost ==
    /\ costPc = "idle"
    /\ \E rid \in ResourceIds, st \in ServiceTypes, rg \in RegionSet,
          ce \in BillingAnswers :
           /\ cost_args' = [fetcher |-> "get_resource_cost", resource_id |-> rid,
                            service_type |-> st, region |-> rg]
           /\ ce_response' = [tags |-> NoTagLookup, billing |-> ce]
           /\ ce_request' = TryResourceCost(rid, st, rg, ce).requests
           /\ cost' = get_resource_cost(rid, st, rg, ce)
           /\ costPc' = "returned"
           /\ UNCHANGED <<aggVars, queryVars, metricVars, collectVars, passVars>>

CallGetJhsCost ==
    /\ costPc = "idle"
    /\ \E rid \in ResourceIds, st \in ServiceTypes, rg \in RegionSet,
          tags \in TagAnswers, ce \in BillingAnswers :
           /\ cost_args' = [fetcher |-> "get_jhs_cost", resource_id |-> rid,
                            service_type |-> st, region |-> rg]
           /\ ce_response' = [tags |-> tags, billing |-> ce]
           /\ ce_request' = TryJhsCost(rid, st, rg, tags, ce).requests
           /\ cost' = get_jhs_cost(rid, st, rg, tags, ce)
           /\ costPc' = "returned"
           /\ UNCHANGED <<aggVars, queryVars, metricVars, collectVars, passVars>>

\* the caller has the value; the fetcher keeps nothing of the call
CostTaken ==
    /\ costPc = "returned"
    /\ cost_args' = <<>>
    /\ ce_request' = <<>>
    /\ ce_response' = <<>>
    /\ cost' = Zero
    /\ costPc' = "idle"
    /\ UNCHANGED <<aggVars, queryVars, metricVars, collectVars, passVars>>

\* AWSResourceCollector after __init__, seen by a caller of its cost fetchers
InitCost ==
    /\ AggIdle /\ QueryIdle /\ MetricIdle /\ CollectIdle /\ PassIdle
    /\ CostIdle

NextCost == CallGetResourceCost \/ CallGetJhsCost \/ CostTaken

SpecCost == InitCost /\ [][NextCost]_vars

(***************************************************************************)
(* The metric fetcher: get_cloudwatch_metrics.                             *)
(* An Average is a number of thousandths, a rounded value a float of       *)
(* hundredths.                                                             *)
(***************************************************************************)
\* most data points in one response of get_metric_statistics
MaxPoints == 2

\* metric_configs
metric_configs ==
    [k \in {"EC2", "RDS", "Lambda"} |->
        CASE k = "EC2" ->
                [namespace |-> "AWS/EC2", dimension_name |-> "InstanceId",
                 metrics |-> << <<"CPUUtilization", "Percent">>,
                                <<"NetworkIn", "Bytes">>,
                                <<"NetworkOut", "Bytes">>,
                                <<"DiskReadBytes", "Bytes">>,
                                <<"DiskWriteBytes", "Bytes">> >>]
          [] k = "RDS" ->
                [namespace |-> "AWS/RDS", dimension_name |-> "DBInstanceIdentifier",
                 metrics |-> << <<"CPUUtilization", "Percent">>,
                                <<"FreeableMemory", "Bytes">>,
                                <<"DatabaseConnections", "Count">>,
                                <<"ReadIOPS", "Count/Second">>,
                                <<"WriteIOPS", "Count/Second">> >>]
          [] k = "Lambda" ->
                [namespace |-> "AWS/Lambda", dimension_name |-> "FunctionName",
                 metrics |-> << <<"Invocations", "Count">>,
                                <<"Duration", "Milliseconds">>,
                                <<"Errors", "Count">>,
                                <<"Throttles", "Count">> >>]]

\* round(x, 2): to the nearest hundredth, a tie to the even one
Round2(x) ==
    LET down == x \div 10
        rest == x % 10
    IN  <<"float", IF rest > 5 \/ (rest = 5 /\ down % 2 = 1)
                   THEN down + 1 ELSE down>>

\* the data point the backend holds for the period that ends at time t
Datapoint(t) == [Timestamp |-> t, Average |-> 12347 * t]

\* the Datapoints lists of a response: the data points of some periods, in
\* any order
DatapointLists ==
    {s \in SeqsUpTo({Datapoint(t) : t \in 1..MaxPoints}, MaxPoints) :
        /\ s # <<>>
        /\ \A i, j \in 1..Len(s) : i # j => s[i] # s[j]}

\* how get_metric_statistics answers: it raises, or returns Datapoints
MetricAnswers ==
    {[outcome |-> "raise", Datapoints |-> <<>>],
     [outcome |-> "empty", Datapoints |-> <<>>]}
        \cup [outcome : {"value"}, Datapoints : DatapointLists]

\* {}
EmptyMetrics == <<>>

\* the body of the inner try block for one (metric_name, unit)
StoreMetric(md, metric_name, unit, answer) ==
    IF answer.outcome = "value"
    THEN [n \in DOMAIN md \cup {metric_name} |->
            IF n = metric_name
            THEN [value |-> Round2(answer.Datapoints[Len(answer.Datapoints)].Average),
                  unit |-> unit]
            ELSE md[n]]
    ELSE md

\* variant of AfterRequest: a request that raises ends the loop
AfterRequestBreak(answer) ==
    IF answer.outcome = "raise" THEN "returned" ELSE "loop"

\* after a request, handled or not, the for loop goes on
AfterRequest(answer) == "loop"

\* variant of OnMetricsError: the outer handler returns None
OnMetricsErrorNone == PyNone

\* except Exception as e: ... return {}
OnMetricsError == EmptyMetrics

\* get_cloudwatch_metrics up to the loop: the client is created; without it,
\* or for a service type that metric_configs lacks, the call returns at once
CallGetCloudwatchMetrics ==
    /\ metricPc = "idle"
    /\ \E rid \in ResourceIds, st \in ServiceTypes, rg \in RegionSet,
          client \in {"ok", "raise"} :
           /\ metric_args' = [resource_id |-> rid, service_type |-> st,
                              region |-> rg, client |-> client]
           /\ cw_calls' = <<>>
           /\ cw_outcomes' = <<>>
           /\ cw_response' = <<>>
           /\ metrics_data' = IF client = "raise" THEN OnMetricsError ELSE EmptyMetrics
           /\ metricPc' = IF client = "raise" \/ st \notin DOMAIN metric_configs
                          THEN "returned" ELSE "loop"
           /\ UNCHANGED <<aggVars, queryVars, costVars, collectVars, passVars>>

\* one pass of the for loop: the request for the next declared metric
RequestMetric ==
    /\ metricPc = "loop"
    /\ Len(cw_calls) < Len(metric_configs[metric_args.service_type].metrics)
    /\ LET m == metric_configs[metric_args.service_type].metrics[Len(cw_calls) + 1]
       IN  \E answer \in MetricAnswers :
              /\ cw_calls' = Append(cw_calls, m[1])
              /\ cw_outcomes' = Append(cw_outcomes, answer.outcome)
              /\ cw_response' = answer.Datapoints
              /\ metrics_data' = StoreMetric(metrics_data, m[1], m[2], answer)
              /\ metricPc' = AfterRequest(answer)
    /\ UNCHANGED <<metric_args, aggVars, queryVars, costVars, collectVars, passVars>>

\* return metrics_data
ReturnMetrics ==
    /\ metricPc = "loop"
    /\ Len(cw_calls) = Len(metric_configs[metric_args.service_type].metrics)
    /\ metricPc' = "returned"
    /\ UNCHANGED <<metric_args, cw_calls, cw_outcomes, cw_response, metrics_data,
                   aggVars, queryVars, costVars, collectVars, passVars>>

\* the caller has the mapping; the fetcher keeps nothing of the call
MetricsTaken ==
    /\ metricPc = "returned"
    /\ metric_args' = <<>>
    /\ cw_calls' = <<>>
    /\ cw_outcomes' = <<>>
    /\ cw_response' = <<>>
    /\ metrics_data' = EmptyMetrics
    /\ metricPc' = "idle"
    /\ UNCHANGED <<aggVars, queryVars, costVars, collectVars, passVars>>

InitMetrics ==
    /\ AggIdle /\ QueryIdle /\ CostIdle /\ CollectIdle /\ PassIdle
    /\ MetricIdle

NextMetrics ==
    CallGetCloudwatchMetrics \/ RequestMetric \/ ReturnMetrics \/ MetricsTaken

SpecMetrics == InitMetrics /\ [][NextMetrics]_vars

(***************************************************************************)
(* The collectors: collect_ec2_data, collect_rds_data, collect_lambda_data *)
(* and collect_s3_data.  A native resource is the dict the enumeration     *)
(* returned for it: a function whose domain is the fields present.         *)
(***************************************************************************)
\* most native resources one enumeration call lists
MaxNative == 2

\* get_cloudwatch_metrics as a function of how the metrics backend answers:
\* cw.client is how the creation of the client ends, cw.answers the answers
\* to the requests in the order they are made
RECURSIVE FoldMetrics(_, _, _)
FoldMetrics(md, ms, answers) ==
    IF ms = <<>> THEN md
    ELSE FoldMetrics(StoreMetric(md, Head(ms)[1], Head(ms)[2], Head(answers)),
                     Tail(ms), Tail(answers))

get_cloudwatch_metrics(resource_id, service_type, region, cw) ==
    IF cw.client = "raise" THEN OnMetricsError
    ELSE IF service_type \notin DOMAIN metric_configs THEN EmptyMetrics
    ELSE FoldMetrics(EmptyMetrics, metric_configs[service_type].metrics, cw.answers)

\* the metrics backend during a collector call: the metrics of a resource
\* have a data point or none, alternately
MetricsBackend(resource_id) ==
    [client |-> "ok",
     answers |-> [j \in 1..5 |->
                    IF (resource_id[3] + j) % 2 = 0
                    THEN [outcome |-> "value", Datapoints |-> <<Datapoint(1)>>]
                    ELSE [outcome |-> "empty", Datapoints |-> <<>>]]]

\* the billing backend during a collector call: an amount for us-east-1, no
\* results for the other regions
BillingBackend(region) ==
    [outcome |-> "ok",
     ResultsByTime |-> IF region = "us-east-1"
                       THEN << <<"1", "2", "3", ".", "4", "5">> >> ELSE <<>>]

\* the regions a collector enumerates: self.regions, and for S3 the one
\* call of list_buckets
Scopes(k) == IF k = "S3" THEN <<"global">> ELSE Regions

\* the field that holds the identifier of the resource
IdField(k) ==
    CASE k = "EC2" -> "InstanceId"
      [] k = "RDS" -> "DBInstanceIdentifier"
      [] k = "Lambda" -> "FunctionName"
      [] k = "S3" -> "Name"

\* the fields the collector reads with [...]
RequiredFields(k) ==
    CASE k = "EC2" -> {"InstanceId", "State", "LaunchTime", "InstanceType"}
      [] k = "RDS" -> {"DBInstanceIdentifier", "DBInstanceStatus", "InstanceCreateTime",
                       "Engine", "EngineVersion", "DBInstanceClass", "AllocatedStorage"}
      [] k = "Lambda" -> {"FunctionName", "FunctionArn", "LastModified"}
      [] k = "S3" -> {"Name", "CreationDate"}

\* the fields the collector reads with .get(..., default)
OptionalFields(k) ==
    CASE k = "EC2" -> {"Tags", "PrivateIpAddress", "PublicIpAddress", "VpcId", "SubnetId"}
      [] k = "RDS" -> {"TagList", "Endpoint"}
      [] k = "Lambda" -> {"Runtime", "MemorySize", "Timeout", "Handler"}
      [] k = "S3" -> {}

\* The shapes of a native resource:
\*   "full"     every field present, every lookup succeeds
\*   "bare"     the required fields only; no tags
\*   "noreq"    a required field other than the identifier is missing
\*   "noid"     the identifier is missing
\*   "tagfail"  list_tags (Lambda) or get_bucket_tagging (S3) raises
\*   "locfail"  get_bucket_location (S3) raises
Shapes(k) ==
    CASE k \in {"EC2", "RDS"} -> {"full", "bare", "noreq", "noid"}
      [] k = "Lambda" -> {"full", "bare", "noreq", "noid", "tagfail"}
      [] k = "S3" -> {"full", "noreq", "noid", "tagfail", "locfail"}

\* the required field a resource of shape "noreq" lacks
DroppedField(k) ==
    CASE k = "EC2" -> "InstanceType"
      [] k = "RDS" -> "Engine"
      [] k = "Lambda" -> "LastModified"
      [] k = "S3" -> "CreationDate"

FieldsOf(k, shape) ==
    CASE shape = "bare" -> RequiredFields(k)
      [] shape = "noreq" -> (RequiredFields(k) \cup OptionalFields(k)) \ {DroppedField(k)}
      [] shape = "noid" -> (RequiredFields(k) \cup OptionalFields(k)) \ {IdField(k)}
      [] OTHER -> RequiredFields(k) \cup OptionalFields(k)

\* the identifier of the i-th resource that scope lists
NativeId(k, scope, i) == <<k, scope, i>>

FieldValue(k, scope, i, f) ==
    CASE f = IdField(k) -> NativeId(k, scope, i)
      [] f \in {"State", "DBInstanceStatus"} -> StatusOf(k, i)
      [] f \in {"LaunchTime", "InstanceCreateTime", "CreationDate"} -> <<"datetime", i>>
      [] f = "LastModified" -> <<"str", <<"iso 8601", i>> >>
      [] f \in {"Tags", "TagList"} -> [Name |-> "web"]
      [] OTHER -> <<"native", f>>

\* the dict the enumeration returns for the i-th resource of the scope
NativeResource(k, scope, i, shape) ==
    [f \in FieldsOf(k, shape) |-> FieldValue(k, scope, i, f)]

\* lambda_client.list_tags(...) and self.s3.get_bucket_tagging(...)
TagLookup(shape) ==
    CASE shape = "tagfail" -> Raises("ClientError")
      [] shape = "bare" -> Returns(<<>>)
      [] OTHER -> Returns([Name |-> "web"])

\* self.s3.get_bucket_location(...)['LocationConstraint']: None for a bucket
\* of us-east-1
LocationLookup(shape, i) ==
    IF shape = "locfail" THEN Raises("ClientError")
    ELSE Returns(IF i % 2 = 1 THEN PyNone ELSE Str(Regions[2]))

\* region['LocationConstraint'] or 'us-east-1'
BucketRegion(location) == IF Truthy(location) THEN location[2] ELSE Regions[1]

\* variant of GetOr: dict.get(f), without a default
GetOrNone(d, f, default) == IF f \in DOMAIN d THEN d[f] ELSE PyNone

\* dict.get(f, default)
GetOr(d, f, default) == IF f \in DOMAIN d THEN d[f] ELSE default

\* t.strftime('%Y-%m-%d %H:%M:%S')
Strftime(t) == <<"str", <<"%Y-%m-%d %H:%M:%S", t[2]>> >>

\* datetime.now()
Now == <<"datetime", "now">>

\* json.dumps(m)
JsonDumps(m) == <<"json", m>>

\* variant of RecordRegion: the region of the collector's default client
RecordRegionDefault(region) == Regions[1]

\* 'region': region, the loop variable of the region loop
RecordRegion(region) == region

MetricsCall(rid) == <<"get_cloudwatch_metrics", rid>>
CostCall(rid) == <<"get_resource_cost", rid>>

\* the try block for one instance of collect_ec2_data
TryEC2(region, instance) ==
    IF "InstanceId" \notin DOMAIN instance
    THEN [calls |-> <<>>, result |-> Raises("KeyError")]
    ELSE LET rid == instance["InstanceId"]
             calls == <<MetricsCall(rid), CostCall(rid)>>
         IN  IF ~({"State", "LaunchTime", "InstanceType"} \subseteq DOMAIN instance)
             THEN [calls |-> calls, result |-> Raises("KeyError")]
             ELSE [calls |-> calls, result |-> Returns(
                   [resource_id |-> rid,
                    service_type |-> "EC2",
                    region |-> RecordRegion(region),
                    status |-> instance["State"],
                    creation_date |-> Strftime(instance["LaunchTime"]),
                    last_modified |-> Strftime(Now),
                    tags |-> JsonDumps(GetOr(instance, "Tags", <<>>)),
                    cost |-> get_resource_cost(rid, "EC2", region, BillingBackend(region)),
                    details |->
                       [instance_type |-> instance["InstanceType"],
                        private_ip |-> GetOr(instance, "PrivateIpAddress", Str("")),
                        public_ip |-> GetOr(instance, "PublicIpAddress", Str("")),
                        vpc_id |-> GetOr(instance, "VpcId", Str("")),
                        subnet_id |-> GetOr(instance, "SubnetId", Str("")),
                        metrics |-> get_cloudwatch_metrics(rid, "EC2", region,
                                                           MetricsBackend(rid))]])]

\* the try block for one instance of collect_rds_data
TryRDS(region, instance) ==
    IF "DBInstanceIdentifier" \notin DOMAIN instance
    THEN [calls |-> <<>>, result |-> Raises("KeyError")]
    ELSE LET rid == instance["DBInstanceIdentifier"]
             calls == <<MetricsCall(rid), CostCall(rid)>>
         IN  IF ~(RequiredFields("RDS") \subseteq DOMAIN instance)
             THEN [calls |-> calls, result |-> Raises("KeyError")]
             ELSE [calls |-> calls, result |-> Returns(
                   [resource_id |-> rid,
                    service_type |-> "RDS",
                    region |-> RecordRegion(region),
                    status |-> instance["DBInstanceStatus"],
                    creation_date |-> Strftime(instance["InstanceCreateTime"]),
                    last_modified |-> Strftime(Now),
                    tags |-> JsonDumps(GetOr(instance, "TagList", <<>>)),
                    cost |-> get_resource_cost(rid, "RDS", region, BillingBackend(region)),
                    details |->
                       [engine |-> instance["Engine"],
                        engine_version |-> instance["EngineVersion"],
                        instance_class |-> instance["DBInstanceClass"],
                        storage |-> instance["AllocatedStorage"],
                        endpoint |-> IF "Endpoint" \in DOMAIN instance
                                     THEN <<"native", "Address">> ELSE Str(""),
                        metrics |-> get_cloudwatch_metrics(rid, "RDS", region,
                                                           MetricsBackend(rid))]])]

\* if isinstance(function['LastModified'], str): the str the service returns
\* is passed on as it is; anything else is formatted with strftime
LastModifiedText(v) == IF v[1] = "str" THEN v ELSE Strftime(v)

\* the try block for one function of collect_lambda_data; creation_date and
\* last_modified are both the text of LastModified
TryLambda(region, function, tags_response) ==
    IF "FunctionName" \notin DOMAIN function
    THEN [calls |-> <<>>, result |-> Raises("KeyError")]
    ELSE LET rid == function["FunctionName"]
             calls == <<MetricsCall(rid), CostCall(rid)>>
         IN  IF "FunctionArn" \notin DOMAIN function
             THEN [calls |-> calls, result |-> Raises("KeyError")]
             ELSE IF tags_response.raised
             THEN [calls |-> Append(calls, <<"list_tags", rid>>),
                   result |-> Raises(tags_response.value)]
             ELSE IF "LastModified" \notin DOMAIN function
             THEN [calls |-> Append(calls, <<"list_tags", rid>>),
                   result |-> Raises("KeyError")]
             ELSE [calls |-> Append(calls, <<"list_tags", rid>>), result |-> Returns(
                   [resource_id |-> rid,
                    service_type |-> "Lambda",
                    region |-> RecordRegion(region),
                    status |-> "Active",
                    creation_date |-> LastModifiedText(function["LastModified"]),
                    last_modified |-> LastModifiedText(function["LastModified"]),
                    tags |-> JsonDumps(tags_response.value),
                    cost |-> get_resource_cost(rid, "Lambda", region, BillingBackend(region)),
                    details |->
                       [runtime |-> GetOr(function, "Runtime", Str("")),
                        memory |-> GetOr(function, "MemorySize", <<"int", 0>>),
                        timeout |-> GetOr(function, "Timeout", <<"int", 0>>),
                        handler |-> GetOr(function, "Handler", Str("")),
                        metrics |-> get_cloudwatch_metrics(rid, "Lambda", region,
                                                           MetricsBackend(rid))]])]

\* the try block for one bucket of collect_s3_data; a failing
\* get_bucket_tagging has its own handler and gives tags = {}
TryS3(bucket, location, tagging) ==
    IF "Name" \notin DOMAIN bucket
    THEN [calls |-> <<>>, result |-> Raises("KeyError")]
    ELSE LET rid == bucket["Name"]
         IN  IF location.raised
             THEN [calls |-> << <<"get_bucket_location", rid>> >>,
                   result |-> Raises(location.value)]
             ELSE LET region == BucketRegion(location.value)
                      tags == IF tagging.raised THEN <<>> ELSE tagging.value
                      calls == << <<"get_bucket_location", rid>>,
                                  <<"get_bucket_tagging", rid>>, CostCall(rid)>>
                  IN  IF "CreationDate" \notin DOMAIN bucket
                      THEN [calls |-> calls, result |-> Raises("KeyError")]
                      ELSE [calls |-> calls, result |-> Returns(
                            [resource_id |-> rid,
                             service_type |-> "S3",
                             region |-> region,
                             status |-> "Active",
                             creation_date |-> Strftime(bucket["CreationDate"]),
                             last_modified |-> Strftime(Now),
                             tags |-> JsonDumps(tags),
                             cost |-> get_resource_cost(rid, "S3", region,
                                                        BillingBackend(region)),
                             details |->
                                [creation_date |-> Strftime(bucket["CreationDate"])]])]

\* the try block of collector k for the i-th resource, of the given shape,
\* that the scope lists
TryResource(k, scope, i, shape) ==
    LET res == NativeResource(k, scope, i, shape)
    IN  CASE k = "EC2" -> TryEC2(scope, res)
          [] k = "RDS" -> TryRDS(scope, res)
          [] k = "Lambda" -> TryLambda(scope, res, TagLookup(shape))
          [] k = "S3" -> TryS3(res, LocationLookup(shape, i), TagLookup(shape))

\* except Exception as e: print(f"Error processing ... {instance['InstanceId']}
\* ..."); continue -- the print itself raises KeyError when the resource has
\* no identifier
OnResourceError(k, res) ==
    IF IdField(k) \in DOMAIN res THEN "continue" ELSE "raise"

\* variant of OnRegionError: the exception is raised again
OnRegionErrorRaise == "raise"

\* except Exception as e: print(f"Error processing region {region}: ..."); continue
OnRegionError == "continue"

\* variant of OnCollectorError: the handler returns a frame with an error row
OnCollectorErrorRow == DataFrame(<<[resource_id |-> "error"]>>)

\* except Exception as e: ... return pd.DataFrame()
OnCollectorError == EmptyDataFrame

\* how the enumeration calls of a collector can end, scope by scope
Enumerations(k) ==
    [outcome : {"raise"}, res : {<<>>}]
        \cup [outcome : {"ok"}, res : SeqsUpTo(Shapes(k), MaxNative)]

\* the collector method is called: print, try, <kind>_data = []
CallCollector ==
    /\ collectPc = "idle"
    /\ data' = <<>>
    /\ region_idx' = 1
    /\ res_idx' = 0
    /\ collectPc' = "regions"
    /\ UNCHANGED <<kind, native, fetch_log, frame, aggVars, queryVars, costVars, metricVars, passVars>>

\* an exception reaches the handler of the region loop, or (S3, which has
\* no region loop) the handler of the method
AbandonScope ==
    IF kind # "S3" /\ OnRegionError = "continue"
    THEN /\ region_idx' = region_idx + 1
         /\ res_idx' = 0
         /\ collectPc' = "regions"
         /\ UNCHANGED <<data, frame>>
    ELSE /\ frame' = OnCollectorError
         /\ collectPc' = "returned"
         /\ UNCHANGED <<data, region_idx, res_idx>>

\* the next pass of the region loop: the client is created and the
\* resources of the region are listed (S3: list_buckets, once)
EnumerateRegion ==
    /\ collectPc = "regions"
    /\ region_idx <= Len(Scopes(kind))
    /\ fetch_log' = Append(fetch_log, <<"enumerate", Scopes(kind)[region_idx]>>)
    /\ IF native[region_idx].outcome = "raise"
       THEN AbandonScope
       ELSE IF native[region_idx].res = <<>>
       THEN /\ region_idx' = region_idx + 1
            /\ UNCHANGED <<data, res_idx, frame, collectPc>>
       ELSE /\ res_idx' = 1
            /\ collectPc' = "resources"
            /\ UNCHANGED <<data, region_idx, frame>>
    /\ UNCHANGED <<kind, native, aggVars, queryVars, costVars, metricVars, passVars>>

\* the loop over the resources of the region goes on, or ends
AdvanceResource ==
    IF res_idx < Len(native[region_idx].res)
    THEN /\ res_idx' = res_idx + 1
         /\ UNCHANGED <<region_idx, collectPc>>
    ELSE /\ res_idx' = 0
         /\ region_idx' = region_idx + 1
         /\ collectPc' = "regions"

\* one pass of the loop over the resources: the try block and its handler
ProcessResource ==
    /\ collectPc = "resources"
    /\ LET scope == Scopes(kind)[region_idx]
           shape == native[region_idx].res[res_idx]
           try == TryResource(kind, scope, res_idx, shape)
       IN  /\ fetch_log' = fetch_log \o try.calls
           /\ IF ~try.result.raised
              THEN /\ data' = Append(data, try.result.value)
                   /\ AdvanceResource
                   /\ UNCHANGED frame
              ELSE IF OnResourceError(kind, NativeResource(kind, scope, res_idx, shape))
                        = "continue"
              THEN /\ AdvanceResource
                   /\ UNCHANGED <<data, frame>>
              ELSE AbandonScope
    /\ UNCHANGED <<kind, native, aggVars, queryVars, costVars, metricVars, passVars>>

\* return pd.DataFrame(<kind>_data)
ReturnFrame ==
    /\ collectPc = "regions"
    /\ region_idx > Len(Scopes(kind))
    /\ frame' = DataFrame(data)
    /\ collectPc' = "returned"
    /\ UNCHANGED <<kind, native, data, region_idx, res_idx, fetch_log,
                   aggVars, queryVars, costVars, metricVars, passVars>>

\* a collector of some kind, about to be called, and what its backends hold
InitCollect ==
    /\ AggIdle /\ QueryIdle /\ CostIdle /\ MetricIdle /\ PassIdle
    /\ kind \in KindSet
    /\ native \in [1..Len(Scopes(kind)) -> Enumerations(kind)]
    /\ data = <<>>
    /\ region_idx = 0
    /\ res_idx = 0
    /\ fetch_log = <<>>
    /\ frame = EmptyDataFrame
    /\ collectPc = "idle"

NextCollect == CallCollector \/ EnumerateRegion \/ ProcessResource \/ ReturnFrame

SpecCollect == InitCollect /\ [][NextCollect]_vars

(***************************************************************************)
(* One pass seen call by call: each collector is a thread of the pool that *)
(* issues its backend calls as blocking calls, none of which has a         *)
(* timeout.                                                                *)
(***************************************************************************)
RECURSIVE ResourceCalls(_, _, _, _)
\* the fetcher and lookup calls a collector makes for the resources, from
\* the i-th to the n-th, that live in the scope
ResourceCalls(k, scope, i, n) ==
    IF i > n THEN <<>>
    ELSE (IF k = "S3" \/ Record(k, i).region = scope
          THEN TryResource(k, scope, i, "full").calls ELSE <<>>)
            \o ResourceCalls(k, scope, i + 1, n)

RECURSIVE ScopeCalls(_, _, _)
\* the backend calls of the collector of kind k from its r-th scope on, when
\* the backend holds n resources of the kind: the enumeration of the scope,
\* then the calls for each resource listed
ScopeCalls(k, r, n) ==
    IF r > Len(Scopes(k)) THEN <<>>
    ELSE << <<"enumerate", Scopes(k)[r]>> >>
            \o ResourceCalls(k, Scopes(k)[r], 1, n)
            \o ScopeCalls(k, r + 1, n)

\* no call hangs
NoHang == <<>>

\* the backends of the pass: one Lambda function, whose record takes an
\* enumeration, a metric, a cost and a tag lookup call; nothing of the other
\* kinds, whose collectors make their enumeration calls only
PassBackend ==
    [k \in KindSet |-> [n |-> IF k = "Lambda" THEN 1 ELSE 0, outcome |-> "ok"]]

\* the backend calls of each collector during the pass, in program order
PassCalls == [k \in KindSet |-> ScopeCalls(k, 1, PassBackend[k].n)]

\* the backend calls of the collector of kind k, in program order
CallsOf(k) == PassCalls[k]

\* variant of Blocking: the next call is issued without waiting
BlockingNever(k) == TRUE

\* a call statement is reached only when the call before it has returned
Blocking(k) == in_flight[k] = {}

\* variant of MayReturn: a call that is not answered is given up with an error
MayReturnTimeout(k, c) == TRUE

\* the call c of kind k is answered, with a result or an error; no call has
\* a timeout
MayReturn(k, c) == hanging # <<k, c>>

\* the collector thread of kind k reaches its next backend call
IssueCall(k) ==
    /\ task[k] = "running"
    /\ Blocking(k)
    /\ issued[k] < Len(CallsOf(k))
    /\ issued' = [issued EXCEPT ![k] = @ + 1]
    /\ in_flight' = [in_flight EXCEPT ![k] = @ \cup {issued[k] + 1}]
    /\ UNCHANGED <<hanging, previous, aggVars, queryVars, costVars, metricVars, collectVars>>

\* the backend answers a call in flight; the thread goes on
CallReturns(k) ==
    /\ \E c \in in_flight[k] :
          /\ MayReturn(k, c)
          /\ in_flight' = [in_flight EXCEPT ![k] = @ \ {c}]
    /\ UNCHANGED <<hanging, issued, previous, aggVars, queryVars, costVars, metricVars, collectVars>>

\* the collector method returns once its last call has returned
CollectorReturns(k) ==
    /\ issued[k] = Len(CallsOf(k))
    /\ in_flight[k] = {}
    /\ FinishCollector(k)

InitPass ==
    /\ backend = PassBackend
    /\ task = [k \in KindSet |-> "idle"]
    /\ future = [k \in KindSet |-> NoFuture]
    /\ order = <<>>
    /\ aggPc = "idle"
    /\ table = EmptyDataFrame
    /\ QueryIdle /\ CostIdle /\ MetricIdle /\ CollectIdle
    /\ hanging \in {NoHang} \cup UNION {{<<k, c>> : c \in 1..Len(CallsOf(k))} : k \in KindSet}
    /\ issued = [k \in KindSet |-> 0]
    /\ in_flight = [k \in KindSet |-> {}]
    /\ previous = EmptyDataFrame

NextPass ==
    \/ Submit
    \/ \E k \in KindSet : StartCollector(k)
    \/ \E k \in KindSet : IssueCall(k)
    \/ \E k \in KindSet : CallReturns(k)
    \/ \E k \in KindSet : CollectorReturns(k)
    \/ Gather

SpecPass == InitPass /\ [][NextPass]_vars

\* every thread that can take a step takes one, and the backend answers
\* every call that does not hang
SpecPassFair == SpecPass /\ WF_vars(NextPass)

(***************************************************************************)
(* Properties of a collection pass (SpecAgg).                              *)
(***************************************************************************)
\* the records the collector of kind k returned to collect_all_resources
RowsOf(k) ==
    IF backend[k].outcome = "ok" THEN Produced(k, backend[k].n) ELSE <<>>

DeclaredRows == RowsOf("EC2") \o RowsOf("RDS") \o RowsOf("Lambda") \o RowsOf("S3")

\* C1: whatever subset of the collectors raises, collect_all_resources does
\* not raise: a raising collector counts as an empty result, and the table
\* returned holds every row of the collectors that did not raise.
C1_AggregatorIsolation ==
    aggPc \in {"returned", "raised"} =>
        /\ aggPc = "returned"
        /\ table.rows = DeclaredRows

\* C2: in every interleaving and completion order the table returned is the
\* concatenation of the collectors' results in the order EC2, RDS, Lambda,
\* S3, each kind's rows contiguous and in production order; a kind without
\* records adds no row and no error; the table is empty exactly when every
\* collector produced nothing.
C2_DeclaredOrder ==
    /\ aggPc = "raised" => \E k \in KindSet : backend[k].outcome = "escape"
    /\ aggPc = "returned" =>
          /\ table.rows = DeclaredRows
          /\ IsEmpty(table) <=> \A k \in KindSet : RowsOf(k) = <<>>
          /\ IsEmpty(table) => table.columns = {}

C2_Witness ==
    /\ aggPc = "returned"
    /\ order = <<"S3", "Lambda", "RDS", "EC2">>
    /\ backend["EC2"].n = 2
    /\ backend["RDS"].n = 0
    /\ backend["Lambda"].outcome = "caught"
    /\ backend["S3"].n = 1
    /\ Len(table.rows) = 3

(***************************************************************************)
(* Properties of a query (SpecQuery).                                      *)
(***************************************************************************)
\* a dict whose three fields are None or a str
IsPredicate(qp) ==
    /\ IsDict(qp)
    /\ \A key \in PredicateKeys : Get(qp, key) = PyNone \/ IsStr(Get(qp, key))

\* the row r satisfies the predicate qp, a field constraining when not None
Matches(r, qp) ==
    /\ Get(qp, "service_type") = PyNone
          \/ Str(r.service_type) = Get(qp, "service_type")
    /\ Get(qp, "region") = PyNone \/ Str(r.region) = Get(qp, "region")
    /\ Get(qp, "status") = PyNone
          \/ Lower(r.status) = Lower(Get(qp, "status")[2])

\* C3: for every table and every predicate the translator returned,
\* execute_query returns exactly the rows, in their order, that satisfy every
\* non-null field: service_type and region exactly, status without case.
C3_FilterSemantics ==
    (queryPc = "answered" /\ IsPredicate(query_params)) =>
        result.rows =
            SelectSeq(resources_df.rows, LAMBDA r : Matches(r, query_params))

\* an exception while the filters are applied: a translator result that is
\* no dict, a status that is no str, a filtered column the table lacks
FilterFails(df, qp) ==
    \/ qp # PyNone /\ Truthy(qp) /\ ~IsDict(qp)
    \/ /\ IsDict(qp)
       /\ \/ Get(qp, "status")[1] = "num"
          \/ \E key \in PredicateKeys :
                Truthy(Get(qp, key)) /\ key \notin df.columns

\* C4: when the translator returns null, or an exception occurs while the
\* filters are applied, execute_query returns the whole unfiltered table,
\* never a partly filtered one.
C4_Fallback ==
    (/\ queryPc = "answered"
     /\ \/ response = CallFailed
        \/ query_params = PyNone
        \/ FilterFails(resources_df, query_params)) =>
        result = resources_df

C4_Witness ==
    /\ queryPc = "answered"
    /\ IsDict(query_params)
    /\ Get(query_params, "service_type") = Str("EC2")
    /\ Get(query_params, "status") = NUM7
    /\ \E i \in 1..Len(resources_df.rows) :
          resources_df.rows[i].service_type = "EC2"
    /\ \E i \in 1..Len(resources_df.rows) :
          resources_df.rows[i].service_type # "EC2"
    /\ result = resources_df

\* C5: the translator returns null exactly when the text-generation call
\* failed; for every text of a call that did not fail the result is a
\* predicate, never null.
C5_NullIffCallFailed ==
    queryPc = "answered" =>
        /\ query_params = PyNone <=> response = CallFailed
        /\ response # CallFailed => IsDict(query_params)

\* C6: for every response text whose candidate payload json.loads cannot
\* parse, the translator returns the predicate with three null fields.
C6_ParseFailureAllNull ==
    (/\ queryPc = "answered"
     /\ response # CallFailed
     /\ ~JsonLoads(Payload(response[2])).ok) =>
        query_params = AllNull

HasBraces(t) == (\E i \in 1..Len(t) : t[i] = LB) /\ (\E i \in 1..Len(t) : t[i] = RB)

FirstOpen(t) ==
    CHOOSE i \in 1..Len(t) : t[i] = LB /\ \A j \in 1..(i - 1) : t[j] # LB

LastClose(t) ==
    CHOOSE i \in 1..Len(t) : t[i] = RB /\ \A j \in (i + 1)..Len(t) : t[j] # RB

\* the lexemes of t from the first opening to the last closing brace
SpanOf(t) ==
    [k \in 1..(LastClose(t) - FirstOpen(t) + 1) |-> t[FirstOpen(t) + k - 1]]

\* the objects of PredicatePairs wrapped in prose, with the dict each stands for
WrappedAnswers ==
    {[text |-> pre \o Render(ps) \o post, dict |-> DictOf(ps)] :
        pre \in Wraps, post \in Wraps, ps \in PredicatePairs}

\* C7: for every response text with an opening and a closing brace the
\* payload handed to the parser is the text from the first opening to the
\* last closing brace; an object wrapped in prose or code fences is returned
\* as that object, every field value unchanged, null fields included.
C7_BraceSpan ==
    (queryPc = "answered" /\ response # CallFailed /\ HasBraces(response[2])) =>
        /\ json_str = SpanOf(response[2])
        /\ \A w \in WrappedAnswers :
              response[2] = w.text => query_params = w.dict

C7_Witness ==
    /\ queryPc = "answered"
    /\ response = Text(<<PROSE, WS>> \o Render(ExamplePairs) \o <<WS, FENCE, WS>>)
    /\ query_params = Dict([service_type |-> Str("EC2"), region |-> PyNone,
                            status |-> Str("Running")])

\* C8: a predicate field constrains exactly when it is not null: a field
\* holding the empty string selects only the rows whose field is the empty
\* string.
C8_EmptyStringConstrains ==
    (queryPc = "answered" /\ IsPredicate(query_params)) =>
        \A key \in PredicateKeys :
            Get(query_params, key) = Str("") =>
                \A i \in 1..Len(result.rows) : result.rows[i][key] = ""

\* C9: when the translator yields a predicate whose three fields are null,
\* execute_query returns the table itself: same rows, order and columns.
C9_Identity ==
    (/\ queryPc = "answered"
     /\ IsDict(query_params)
     /\ \A key \in PredicateKeys : Get(query_params, key) = PyNone) =>
        result = resources_df

C9_Witness ==
    /\ queryPc = "answered"
    /\ query_params = AllNull
    /\ response = Text(Render(<<<<"service_type", NULL>>, <<"region", NULL>>,
                                <<"status", NULL>>>>))
    /\ Len(resources_df.rows) = 3
    /\ result = resources_df

\* C10: filtering the result of a query again with the same predicate gives
\* the same table.
C10_Idempotent ==
    queryPc = "answered" => ExecuteQuery(result, query_params) = result

C10_Witness ==
    /\ queryPc = "answered"
    /\ IsPredicate(query_params)
    /\ Get(query_params, "service_type") = Str("EC2")
    /\ Get(query_params, "status") = Str("Running")
    /\ Len(result.rows) = 1
    /\ Len(resources_df.rows) = 3

(***************************************************************************)
(* Properties of the cost fetchers (SpecCost).                             *)
(***************************************************************************)
\* isinstance(v, float)
IsFloat(v) == v[1] \in {"float", "nan", "inf"}

\* C14: for every resource id, service type (one that service_mapping lacks
\* included) and region, get_resource_cost and get_jhs_cost return a float
\* and do not raise; the float is exactly 0.0 when the billing backend
\* reports no results, when the billing call fails and, for get_jhs_cost,
\* when the tag lookup fails; a cost is never None.
C14_CostDegradesToZero ==
    costPc = "returned" =>
        /\ IsFloat(cost)
        /\ cost # PyNone
        /\ ce_response.tags = <<"raise">> => cost = Zero
        /\ cost_args.service_type \notin DOMAIN service_mapping => cost = Zero
        /\ (/\ ce_request # <<>>
            /\ \/ ce_response.billing.outcome = "raise"
               \/ ce_response.billing.ResultsByTime = <<>>) => cost = Zero

C14_Witness ==
    /\ costPc = "returned"
    /\ cost_args.fetcher = "get_jhs_cost"
    /\ cost_args.service_type = "RDS"
    /\ ce_response.tags = Str("web")
    /\ ce_request # <<>>
    /\ ce_response.billing.outcome = "raise"
    /\ cost = Zero

\* the time buckets of a billing answer that carry a finite amount
Priced(buckets) ==
    \A b \in 1..Len(buckets) :
        /\ buckets[b] # NoAmount
        /\ ~Float(buckets[b]).raised
        /\ Float(buckets[b]).value[1] = "float"

RECURSIVE WindowTotal(_)
\* the amounts of all the time buckets of a billing answer, added up (in
\* hundredths)
WindowTotal(buckets) ==
    IF buckets = <<>> THEN 0
    ELSE Float(Head(buckets)).value[2] + WindowTotal(Tail(buckets))

\* C26: when the billing backend reports results for the query over the
\* trailing 30 days, get_resource_cost returns the aggregate of the whole
\* window: the amount of every time bucket returned is accounted for.
C26_WholeWindowCost ==
    (/\ costPc = "returned"
     /\ cost_args.fetcher = "get_resource_cost"
     /\ ce_request # <<>>
     /\ ce_response.billing.outcome = "ok"
     /\ ce_response.billing.ResultsByTime # <<>>
     /\ Priced(ce_response.billing.ResultsByTime)) =>
        cost = <<"float", WindowTotal(ce_response.billing.ResultsByTime)>>

C15_CostFiniteNonNegative ==
    costPc = "returned" => (cost[1] = "float" /\ cost[2] >= 0)

(***************************************************************************)
(* Properties of the metric fetcher (SpecMetrics).                         *)
(***************************************************************************)
\* the metric names metric_configs declares for the service type, in order
Declared(st) ==
    [i \in 1..Len(metric_configs[st].metrics) |-> metric_configs[st].metrics[i][1]]

\* the call got as far as the loop over the declared metrics
InLoop ==
    /\ metricPc \in {"loop", "returned"}
    /\ metric_args.client = "ok"
    /\ metric_args.service_type \in DOMAIN metric_configs

\* C17: for a supported service type and every combination of outcomes of
\* the requests (a value, no data points, an exception), every declared
\* metric is requested, in order, and the keys of the mapping returned are
\* exactly the declared metrics whose request succeeded with at least one
\* data point; a request that fails or is empty never stops a later one.
C17_PerMetricIsolation ==
    InLoop =>
        /\ cw_calls = SubSeq(Declared(metric_args.service_type), 1, Len(cw_calls))
        /\ Len(cw_outcomes) = Len(cw_calls)
        /\ DOMAIN metrics_data =
              {cw_calls[i] : i \in {j \in 1..Len(cw_calls) : cw_outcomes[j] = "value"}}
        /\ metricPc = "returned" => cw_calls = Declared(metric_args.service_type)

C17_Witness ==
    /\ metricPc = "returned"
    /\ metric_args.service_type = "EC2"
    /\ cw_outcomes = <<"raise", "value", "empty", "raise", "value">>
    /\ DOMAIN metrics_data = {"NetworkIn", "DiskWriteBytes"}

\* C18: get_cloudwatch_metrics returns an empty mapping and does not raise
\* for a service type outside EC2, RDS and Lambda and when the fetcher as a
\* whole fails (the client cannot be created); for an unsupported type no
\* request is issued to the metrics backend.
C18_EmptyMetrics ==
    (/\ metricPc = "returned"
     /\ \/ metric_args.client = "raise"
        \/ metric_args.service_type \notin DOMAIN metric_configs) =>
        /\ metrics_data = EmptyMetrics
        /\ cw_calls = <<>>

C18_Witness ==
    /\ metricPc = "returned"
    /\ metric_args.service_type = "S3"
    /\ metric_args.client = "ok"
    /\ metrics_data = EmptyMetrics
    /\ cw_calls = <<>>

\* the data point of a response with the greatest Timestamp
Latest(points) ==
    CHOOSE p \in {points[i] : i \in 1..Len(points)} :
        \A i \in 1..Len(points) : points[i].Timestamp <= p.Timestamp

\* C21: for every metric for which the metrics backend returns one or more
\* data points, in any order, the value stored for the metric is the
\* Average (rounded to two decimals) of the data point with the greatest
\* Timestamp.
C21_LatestValue ==
    (/\ metricPc \in {"loop", "returned"}
     /\ cw_calls # <<>>
     /\ cw_outcomes[Len(cw_outcomes)] = "value") =>
        metrics_data[cw_calls[Len(cw_calls)]].value = Round2(Latest(cw_response).Average)

(***************************************************************************)
(* Properties of a collector (SpecCollect).                                *)
(***************************************************************************)
RegionScoped == {"EC2", "RDS", "Lambda"}

\* the enumeration calls that raise
FailedScopes == {r \in DOMAIN native : native[r].outcome = "raise"}

RECURSIVE Assembled(_, _, _, _)
\* the records of the resources, from the i-th on, that a scope lists and
\* whose record assembly does not fail
Assembled(k, scope, shapes, i) ==
    IF i > Len(shapes) THEN <<>>
    ELSE LET try == TryResource(k, scope, i, shapes[i]).result
         IN  (IF try.raised THEN <<>> ELSE <<try.value>>)
                \o Assembled(k, scope, shapes, i + 1)

RECURSIVE AllAssembled(_, _)
\* those records for the scopes from the r-th on, in enumeration order
AllAssembled(k, r) ==
    IF r > Len(Scopes(k)) THEN <<>>
    ELSE Assembled(k, Scopes(k)[r], native[r].res, 1) \o AllAssembled(k, r + 1)

\* C11: in every collector, a native resource whose record assembly fails (a
\* required native field is missing, the identifier included, or a lookup
\* made for the resource fails) is the only one omitted: the collector does
\* not raise and returns the record of every other resource, of the same and
\* of the other regions, listed before or after it.
C11_PerResourceIsolation ==
    collectPc = "returned" => frame.rows = AllAssembled(kind, 1)

\* the rows of a frame that carry an identifier of the scope
RowsOfScope(rows, scope) ==
    SelectSeq(rows, LAMBDA row : row.resource_id[2] = scope)

RECURSIVE RegionLoop(_, _, _, _)
\* what the loop over the resources of one region appends, from the i-th
\* resource on, whatever the other regions do
RegionLoop(k, scope, shapes, i) ==
    IF i > Len(shapes) THEN <<>>
    ELSE LET try == TryResource(k, scope, i, shapes[i]).result
         IN  IF ~try.raised
             THEN <<try.value>> \o RegionLoop(k, scope, shapes, i + 1)
             ELSE IF OnResourceError(k, NativeResource(k, scope, i, shapes[i])) = "continue"
             THEN RegionLoop(k, scope, shapes, i + 1)
             ELSE <<>>

\* C12: in the collectors that loop over the regions (EC2, RDS, Lambda), for
\* every set F of regions whose enumeration call raises, the exception does
\* not leave the collector and the frame returned holds, for every region
\* not in F, all that the region contributes: the record of every resource
\* it lists when each of them can be assembled; a region in F adds no row.
C12_PerRegionIsolation ==
    (collectPc = "returned" /\ kind \in RegionScoped) =>
        \A r \in DOMAIN native :
            LET rows == RowsOfScope(frame.rows, Regions[r])
            IN  /\ r \in FailedScopes => rows = <<>>
                /\ r \notin FailedScopes =>
                      /\ rows = RegionLoop(kind, Regions[r], native[r].res, 1)
                      /\ (\A i \in 1..Len(native[r].res) :
                            ~TryResource(kind, Regions[r], i, native[r].res[i]).result.raised)
                         => Len(rows) = Len(native[r].res)

C12_Witness ==
    /\ collectPc = "returned"
    /\ kind = "RDS"
    /\ native[1].outcome = "raise"
    /\ native[2].res = <<"full", "bare">>
    /\ Len(frame.rows) = 2
    /\ frame.rows[2].resource_id = NativeId("RDS", "us-west-2", 2)

\* C13: a collector returns an empty record set and does not raise when its
\* kind has no resources and when the top-level enumeration fails
\* (list_buckets for S3, the enumeration of every region for EC2, RDS and
\* Lambda).
C13_EmptyResult ==
    (/\ collectPc = "returned"
     /\ \/ \A r \in DOMAIN native : native[r].outcome = "raise"
        \/ \A r \in DOMAIN native : native[r].res = <<>>) =>
        /\ frame = EmptyDataFrame
        /\ IsEmpty(frame)

C13_Witness ==
    /\ collectPc = "returned"
    /\ kind = "S3"
    /\ native[1].outcome = "raise"
    /\ fetch_log = << <<"enumerate", "global">> >>
    /\ IsEmpty(frame)

\* C19: every record a collector appends has a resource_id, a service_type,
\* a region and a status that are not null; its service_type is the kind of
\* the collector; and in the collectors that loop over the regions its
\* region is the element of the region list under which the resource was
\* enumerated.
C19_RecordInvariant ==
    \A n \in 1..Len(data) :
        LET row == data[n]
        IN  /\ {"resource_id", "service_type", "region", "status"} \subseteq DOMAIN row
            /\ row.resource_id # PyNone
            /\ row.resource_id[1] = kind
            /\ row.service_type = kind
            /\ row.region \in RegionSet
            /\ row.status \in {"running", "stopped", "available", "Active"}
            /\ kind \in RegionScoped =>
                  /\ row.region = row.resource_id[2]
                  /\ \E r \in 1..region_idx :
                        /\ r \in DOMAIN native
                        /\ Regions[r] = row.region
                        /\ native[r].outcome = "ok"

C19_Witness ==
    /\ collectPc = "returned"
    /\ kind = "Lambda"
    /\ native[1].res = <<"tagfail", "full">>
    /\ native[2].res = <<"bare">>
    /\ Len(frame.rows) = 2
    /\ frame.rows[1].region = "us-east-1"
    /\ frame.rows[2].region = "us-west-2"
    /\ frame.rows[2].status = "Active"

\* the collectors that look the tags of a resource up with a call of its own
TagLookupKinds == {"Lambda", "S3"}

\* the frame holds the record of the i-th resource of the r-th scope, with
\* an empty tag mapping
KeptUntagged(r, i) ==
    \E n \in 1..Len(frame.rows) :
        /\ frame.rows[n].resource_id = NativeId(kind, Scopes(kind)[r], i)
        /\ frame.rows[n].tags = JsonDumps(<<>>)

\* C24: in the collectors that look tags up per resource (S3
\* get_bucket_tagging, Lambda list_tags), a failing tag lookup never removes
\* the resource: its record is in the frame returned, with an empty tag
\* mapping. Scopes abandoned because of a resource without identifier are
\* left aside.
C24_TagLookupIsolation ==
    (collectPc = "returned" /\ kind \in TagLookupKinds) =>
        \A r \in DOMAIN native :
            (native[r].outcome = "ok"
                /\ \A j \in 1..Len(native[r].res) : native[r].res[j] # "noid") =>
                \A i \in 1..Len(native[r].res) :
                    native[r].res[i] = "tagfail" => KeptUntagged(r, i)

\* a str in the format '%Y-%m-%d %H:%M:%S'
Canonical(v) == v[1] = "str" /\ v[2][1] = "%Y-%m-%d %H:%M:%S"

\* the time at which the native resource behind a record was created
CreationTime(row) == <<"datetime", row.resource_id[3]>>

\* C25: in every record of every kind, creation_date and last_modified are
\* strings in the format 'YYYY-MM-DD HH:MM:SS', whatever representation the
\* backend used, and creation_date is the creation time of the native
\* resource.
C25_CanonicalDates ==
    \A n \in 1..Len(data) :
        /\ Canonical(data[n].creation_date)
        /\ Canonical(data[n].last_modified)
        /\ data[n].creation_date = Strftime(CreationTime(data[n]))

\* what the details of a record hold for the optional native fields that
\* the resource lacks
DefaultDetails(k) ==
    CASE k = "EC2" -> [private_ip |-> Str(""), public_ip |-> Str(""),
                       vpc_id |-> Str(""), subnet_id |-> Str("")]
      [] k = "RDS" -> [endpoint |-> Str("")]
      [] k = "Lambda" -> [runtime |-> Str(""), memory |-> <<"int", 0>>,
                          timeout |-> <<"int", 0>>, handler |-> Str("")]
      [] OTHER -> <<>>

\* no field of the record, and none of its details, is None: the literal
\* fields are the str the collector writes, the others a value that is not
\* None (the metrics mapping is what get_cloudwatch_metrics returns, a dict)
NoNull(row) ==
    /\ row.service_type \in KindSet
    /\ row.region \in RegionSet
    /\ row.status \in {"running", "stopped", "available", "Active"}
    /\ \A f \in {"resource_id", "creation_date", "last_modified", "tags", "cost"} :
          row[f] # PyNone
    /\ \A f \in DOMAIN row.details \ {"metrics"} : row.details[f] # PyNone

\* C29: the assembly of a native resource that has none of the optional
\* native fields (tags, private and public IP, VPC, subnet, endpoint,
\* runtime, memory, timeout, handler) does not fail: the step of the loop
\* that handles it appends its record, in which these fields hold the
\* empty string, zero or the serialized empty mapping; and no field of any
\* record appended is null.
C29_NormalizedDefaults ==
    [][/\ \A n \in 1..Len(data') : NoNull(data'[n])
       /\ (collectPc = "resources" /\ native[region_idx].res[res_idx] = "bare") =>
             /\ Len(data') = Len(data) + 1
             /\ LET row == data'[Len(data')]
                IN  /\ row.resource_id = NativeId(kind, Scopes(kind)[region_idx], res_idx)
                    /\ row.tags = JsonDumps(<<>>)
                    /\ \A f \in DOMAIN DefaultDetails(kind) :
                          row.details[f] = DefaultDetails(kind)[f]]_vars

C29_Witness ==
    /\ collectPc = "returned"
    /\ kind = "Lambda"
    /\ native[1].res = <<"bare">>
    /\ native[2].res = <<"full", "bare">>
    /\ Len(frame.rows) = 3
    /\ frame.rows[3].details.memory = <<"int", 0>>
    /\ frame.rows[3].details.runtime = Str("")
    /\ frame.rows[3].tags = JsonDumps(<<>>)
    /\ frame.rows[2].tags # JsonDumps(<<>>)

\* C20: every record of every kind (EC2, RDS, Lambda and S3) carries a
\* metrics mapping inside details, possibly empty, and the mapping was
\* obtained by invoking get_cloudwatch_metrics while the record was
\* assembled.
C20_MetricsInEveryRecord ==
    \A n \in 1..Len(data) :
        /\ "metrics" \in DOMAIN data[n].details
        /\ \E c \in 1..Len(fetch_log) : fetch_log[c] = MetricsCall(data[n].resource_id)

(***************************************************************************)
(* The fan-in of collect_all_resources (SpecAgg).                          *)
(***************************************************************************)
\* C16: collect_all_resources returns only after all four collectors have
\* completed: in no interleaving does the table returned lack the rows of a
\* collector that was still running when the first one finished, and no row
\* is delivered before the last collector has finished.
C16_FanInBarrier ==
    /\ aggPc \in {"returned", "raised"} => Finished = KindSet
    /\ Finished # KindSet => table = EmptyDataFrame
    /\ aggPc = "returned" =>
          \A k \in KindSet :
              /\ task[k] = "done"
              /\ \A i \in 1..Len(future[k].rows) :
                    \E j \in 1..Len(table.rows) : table.rows[j] = future[k].rows[i]

C16_Witness ==
    /\ aggPc = "returned"
    /\ order = <<"S3", "RDS", "Lambda", "EC2">>
    /\ backend["EC2"].n = 2
    /\ backend["S3"].n = 1
    /\ Len(table.rows) = 3
    /\ table.rows[1] = Record("EC2", 1)

(***************************************************************************)
(* Properties of a pass seen call by call (SpecPass, SpecPassFair).        *)
(***************************************************************************)
\* C22: during one pass at most four collectors run at the same time, and
\* within one kind the enumeration, metric, cost and lookup calls are issued
\* one after another: at no moment are two backend calls of the same kind
\* in flight.
C22_BoundedConcurrency ==
    /\ Cardinality(Running) <= MaxWorkers
    /\ \A k \in KindSet :
          /\ Cardinality(in_flight[k]) <= 1
          /\ in_flight[k] # {} => task[k] = "running"
          /\ \A c \in in_flight[k] : c = issued[k]

C22_Witness ==
    /\ Cardinality(Running) = 4
    /\ CallsOf("Lambda")[2] = MetricsCall(NativeId("Lambda", "us-east-1", 1))
    /\ in_flight["Lambda"] = {2}
    /\ in_flight["EC2"] = {1}
    /\ in_flight["S3"] = {1}

\* C23: if every backend call (enumeration, tag lookup, metric, cost)
\* eventually returns a result or an error, every collector terminates and
\* collect_all_resources eventually returns; no call has a timeout, so one
\* backend call that never returns, in any one collector, keeps
\* collect_all_resources from ever returning, even after the other three
\* collectors have finished.
C23_Termination ==
    /\ (hanging = NoHang) ~> (aggPc = "returned" /\ Finished = KindSet)
    /\ [](hanging # NoHang => aggPc \in {"idle", "running"})

C23_Witness ==
    /\ hanging = <<"Lambda", 4>>
    /\ CallsOf("Lambda")[4] = <<"list_tags", NativeId("Lambda", "us-east-1", 1)>>
    /\ in_flight["Lambda"] = {4}
    /\ Finished = KindSet \ {"Lambda"}
    /\ aggPc = "running"

\* ---------------------------------------------------------------------
\* Properties of the stored table (SpecQuery)
\* ---------------------------------------------------------------------

\* C27: execute_query never modifies resources_df: over any sequence of
\* queries (answered, translated to null, failed) the stored table stays as
\* it is, and every query is evaluated against that full table.
C27_TableNeverModified ==
    [][/\ resources_df' = resources_df
       /\ (queryPc = "calling" /\ queryPc' = "answered") =>
              result' = ExecuteQuery(resources_df', query_params')]_vars

C27_Witness ==
    /\ queryPc = "ready"
    /\ query_params # PyNone
    /\ Len(resources_df.rows) = 2
    /\ Len(result.rows) = 1
    /\ result.rows[1] = resources_df.rows[2]

\* ---------------------------------------------------------------------
\* Properties of consecutive passes (SpecRepeat)
\* ---------------------------------------------------------------------

\* the rows of a table that describe the resource
RowsFor(t, rid) == {n \in 1..Len(t.rows) : t.rows[n].resource_id = rid}

\* C28: collection passes are stateless: the table a call of
\* collect_all_resources returns holds one row for each resource the
\* backends enumerate during that call and no other row; a resource of the
\* table before that is no longer enumerated has no row, and no row is
\* carried over or duplicated.
C28_StatelessPasses ==
    aggPc = "returned" =>
        /\ \A k \in KindSet : \A i \in 1..MaxRes :
              Cardinality(RowsFor(table, <<k, i>>)) =
                  (IF i <= backend[k].n THEN 1 ELSE 0)
        /\ Len(table.rows) = Sum([k \in KindSet |-> backend[k].n], Kinds)

C28_Witness ==
    /\ aggPc = "returned"
    /\ RowsFor(previous, <<"EC2", 1>>) = {1}
    /\ backend["EC2"].n = 0
    /\ backend["S3"].n = 1
    /\ RowsFor(table, <<"EC2", 1>>) = {}
    /\ Len(table.rows) = 1
    /\ RowsFor(previous, <<"S3", 1>>) = {2}
    /\ RowsFor(table, <<"S3", 1>>) = {1}

====
